---- MODULE Spec2Model ----
(***************************************************************************)
(* Model of the game relay server (src/unnamed/part_000): the client       *)
(* registry `clients`, the state store `playerStates`, the per-connection  *)
(* handlers (connection, message, close, error) and the broadcast helper.  *)
(*                                                                         *)
(* A connection handle `ws` and the `clientId` generated for it are in     *)
(* one-to-one correspondence, so both are modelled by the same number      *)
(* 1..MaxClients; NoWs (0) is the `null` senderWs.                         *)
(*                                                                         *)
(* A JavaScript object used as a player state is a record over the field   *)
(* universe {name, x}; the value Absent marks a key the object does not    *)
(* have.  All field values are strings so that they stay comparable.       *)
(***************************************************************************)
EXTENDS Integers, Sequences, FiniteSets, TLC

VARIABLES
    nextId,        \* number of connections accepted so far + 1 (uuidv4 is fresh each time)
    clients,       \* keys of the Map `clients`
    clientData,    \* the closure object clientData of every accepted connection
    playerStates,  \* the Map `playerStates`, as a sequence of [id, state] in insertion order
    readyState,    \* ws.readyState of every connection handle
    closeFired,    \* connections whose 'close' event has been emitted
    out,           \* per connection: the messages ws.send accepted, in order
    sendErrs,      \* log of the sends that threw inside broadcast (console.error, line 165):
                   \* [to, m, at] = the handle, the message, and how many messages the
                   \* handle had accepted before
    bcasts,        \* log of the broadcast(...) calls that were not suppressed, in order
    lastEvent,     \* the event processed by the last step
    sentName,      \* connections that have sent a state report carrying a non-empty name
    nEvents        \* events processed so far

vars == <<nextId, clients, clientData, playerStates, readyState, closeFired,
          out, sendErrs, bcasts, lastEvent, sentName, nEvents>>

-----------------------------------------------------------------------------
(* Bounds of the model *)

MaxClients == 3
MaxEvents == 4
MaxSendErrs == 1

(* Program constant: message.payload.text.substring(0, 100) *)
ChatMaxLen == 100

-----------------------------------------------------------------------------
(* Values *)

Ids == 1..MaxClients
NoWs == 0

Absent == "undefined"     \* a key the object does not have / undefined
Null == "null"            \* clientData.name before the first state report

Truthy(v) == v \notin {Absent, Null, ""}

EmptyState == [name |-> Absent, x |-> Absent]

\* Object.keys(state)
Keys(state) == {f \in DOMAIN state : state[f] # Absent}

\* a default name that is the empty string
DefaultName_Empty(clientId) == ""

\* `Player_${clientId.substring(0,4)}`
DefaultName(clientId) == "Player_" \o ToString(clientId)

\* a text of n code units
Text(n) == [i \in 1..n |-> i % 7]

Min(a, b) == IF a < b THEN a ELSE b

\* a substring that stops one unit early
Substring_OffByOne(s, from, to) == SubSeq(s, from + 1, Min(to - 1, Len(s)))

\* String.prototype.substring(from, to) for 0 <= from <= to
Substring(s, from, to) == SubSeq(s, from + 1, Min(to, Len(s)))

-----------------------------------------------------------------------------
(* Inbound messages (the result of JSON.parse, or its failure) *)

Payloads ==
    { [name |-> Absent, x |-> Absent],
      [name |-> "",     x |-> "1"],
      [name |-> "Zee",  x |-> "1"],
      [name |-> "Bob",  x |-> Absent] }

ChatTexts == { Text(0), Text(2), Text(ChatMaxLen), Text(ChatMaxLen + 1) }

Inputs ==
    { [type |-> "malformed"] }
    \cup { [type |-> "other"] }
    \cup { [type |-> "playerStateUpdate", hasPayload |-> FALSE] }
    \cup { [type |-> "playerStateUpdate", hasPayload |-> TRUE, payload |-> p] : p \in Payloads }
    \cup { [type |-> "chatMessage", hasPayload |-> FALSE] }
    \cup { [type |-> "chatMessage", hasPayload |-> TRUE, hasText |-> FALSE] }
    \cup { [type |-> "chatMessage", hasPayload |-> TRUE, hasText |-> TRUE, text |-> t] : t \in ChatTexts }

-----------------------------------------------------------------------------
(* The Map playerStates *)

\* playerStates.has(id)
StatesHas(ps, id) == \E i \in 1..Len(ps) : ps[i].id = id

\* playerStates.get(id)?.name   (undefined when there is no entry)
StatesGetName(ps, id) ==
    IF StatesHas(ps, id)
    THEN (CHOOSE e \in {ps[i] : i \in 1..Len(ps)} : e.id = id).state.name
    ELSE Absent

\* a set that merges the new state into the old one (absent fields keep their value)
StatesSet_Merge(ps, id, state) ==
    IF StatesHas(ps, id)
    THEN [i \in 1..Len(ps) |->
            IF ps[i].id = id
            THEN [id |-> id,
                  state |-> [f \in DOMAIN state |->
                                IF state[f] = Absent THEN ps[i].state[f] ELSE state[f]]]
            ELSE ps[i]]
    ELSE Append(ps, [id |-> id, state |-> state])

\* playerStates.set(id, state): replaces in place, or appends a new entry
StatesSet(ps, id, state) ==
    IF StatesHas(ps, id)
    THEN [i \in 1..Len(ps) |-> IF ps[i].id = id THEN [id |-> id, state |-> state] ELSE ps[i]]
    ELSE Append(ps, [id |-> id, state |-> state])

\* a delete that removes nothing
StatesDelete_Keeps(ps, id) == ps

\* playerStates.delete(id)
StatesDelete(ps, id) == SelectSeq(ps, LAMBDA e : e.id # id)

StateIds(ps) == {ps[i].id : i \in 1..Len(ps)}

-----------------------------------------------------------------------------
(* Outbound messages *)

AssignIdMsg(id) == [type |-> "assignId", id |-> id]
WorldStateMsg(players) == [type |-> "worldState", players |-> players]
PlayerJoinedMsg(id, name, state) == [type |-> "playerJoined", id |-> id, name |-> name, state |-> state]
PlayerUpdateMsg(id, state) == [type |-> "playerUpdate", id |-> id, state |-> state]
PlayerLeftMsg(id) == [type |-> "playerLeft", id |-> id]
ChatMsg(senderId, text) == [type |-> "chatMessage", senderId |-> senderId, text |-> text]

-----------------------------------------------------------------------------
(* function broadcast(message, senderWs = null) *)

\* a suppression test with the sense of the name test inverted
Suppressed_Named(message) == message.type = "playerJoined" /\ Truthy(message.name)

\* line 130: a join without a name is not broadcast at all
Suppressed(message) == message.type = "playerJoined" /\ ~Truthy(message.name)

\* lines 136-141: state.name is filled from the registry entry of payload.id.
\* (The state object is the one stored in playerStates; the callers always pass a
\* state whose name is already set, so the fill never changes a stored state.)
FillName(cl, cd, message) ==
    IF /\ message.type \in {"playerJoined", "playerUpdate"}
       /\ message.id \in cl
       /\ Truthy(cd[message.id].name)
       /\ ~Truthy(message.state.name)
    THEN [message EXCEPT !.state.name = cd[message.id].name]
    ELSE message

\* lines 147-159: shouldSend for one registered client
ShouldSend(rs, message, client, senderWs) ==
    /\ rs[client] = "OPEN"
    /\ IF message.type \in {"chatMessage", "playerLeft", "playerJoined"}
       THEN TRUE
       ELSE IF message.type \in {"playerUpdate", "worldState"}
            THEN client # senderWs
            ELSE senderWs = NoWs \/ client # senderWs

\* a fan-out over every handle ever accepted instead of the registry
Recipients_AllHandles(cl, rs, message, senderWs) ==
    IF Suppressed(message) THEN {}
    ELSE {client \in Ids : ShouldSend(rs, message, client, senderWs)}

Recipients(cl, rs, message, senderWs) ==
    IF Suppressed(message) THEN {}
    ELSE {client \in cl : ShouldSend(rs, message, client, senderWs)}

\* the elements of a set of ids in increasing order (clients.forEach visits the
\* entries in insertion order, and ids are handed out in increasing order)
RECURSIVE InOrder(_)
InOrder(S) ==
    IF S = {} THEN <<>>
    ELSE LET m == CHOOSE a \in S : \A b \in S : a <= b
         IN <<m>> \o InOrder(S \ {m})

\* a fan-out that a throwing send aborts: the clients visited after it get nothing
broadcast_StopsAtThrow(cl, cd, rs, st, message, senderWs, throws) ==
    IF Suppressed(message) THEN st
    ELSE LET msg == FillName(cl, cd, message)
             to == Recipients(cl, rs, message, senderWs)
             errs == InOrder(to \cap throws)
         IN [ out |-> [c \in Ids |->
                         IF c \in to \ throws /\ \A t \in to \cap throws : c < t
                         THEN Append(st.out[c], msg) ELSE st.out[c]],
              sendErrs |-> st.sendErrs \o
                             [i \in 1..Len(errs) |->
                                [to |-> errs[i], m |-> msg, at |-> Len(st.out[errs[i]])]],
              bcasts |-> Append(st.bcasts, msg) ]

\* st = [out, sendErrs, bcasts]; throws = the handles whose ws.send throws in this call
broadcast(cl, cd, rs, st, message, senderWs, throws) ==
    IF Suppressed(message) THEN st
    ELSE LET msg == FillName(cl, cd, message)
             to == Recipients(cl, rs, message, senderWs)
             errs == InOrder(to \cap throws)
         IN [ out |-> [c \in Ids |->
                         IF c \in to \ throws THEN Append(st.out[c], msg) ELSE st.out[c]],
              sendErrs |-> st.sendErrs \o
                             [i \in 1..Len(errs) |->
                                [to |-> errs[i], m |-> msg, at |-> Len(st.out[errs[i]])]],
              bcasts |-> Append(st.bcasts, msg) ]

St == [out |-> out, sendErrs |-> sendErrs, bcasts |-> bcasts]

\* the sends of one broadcast call that may throw, within the model's bound
Throws(cl, rs, st, message, senderWs) ==
    {F \in SUBSET Recipients(cl, rs, message, senderWs) :
        Len(st.sendErrs) + Cardinality(F) <= MaxSendErrs}

-----------------------------------------------------------------------------
(* wss.on('connection') *)

\* a player list that keeps every other entry of the store
currentState_NoFilter(ps, clientId) ==
    LET kept == SelectSeq(ps, LAMBDA e : e.id # clientId)
    IN [i \in 1..Len(kept) |->
            [id |-> kept[i].id, name |-> kept[i].state.name, state |-> kept[i].state]]

\* lines 35-41: the player list of the worldState message
currentState(ps, clientId) ==
    LET kept == SelectSeq(ps, LAMBDA e :
                    e.id # clientId /\ Truthy(e.state.name) /\ Keys(e.state) # {})
    IN [i \in 1..Len(kept) |->
            [id |-> kept[i].id, name |-> kept[i].state.name, state |-> kept[i].state]]

Connected == 1..(nextId - 1)

\* a connection that sends no worldState when nobody is listed
ConnectionSends_SkipEmpty(ps, clientId) ==
    IF currentState(ps, clientId) = <<>>
    THEN << AssignIdMsg(clientId) >>
    ELSE << AssignIdMsg(clientId), WorldStateMsg(currentState(ps, clientId)) >>

\* lines 32 and 42: the two sends to the new handle
ConnectionSends(ps, clientId) ==
    << AssignIdMsg(clientId), WorldStateMsg(currentState(ps, clientId)) >>

Connection ==
    /\ nextId <= MaxClients
    /\ LET clientId == nextId
           ps == StatesSet(playerStates, clientId, EmptyState)
       IN /\ nextId' = nextId + 1
          /\ clientData' = [clientData EXCEPT ![clientId] = [name |-> Null, state |-> EmptyState]]
          /\ clients' = clients \cup {clientId}
          /\ playerStates' = ps
          /\ readyState' = [readyState EXCEPT ![clientId] = "OPEN"]
          /\ out' = [out EXCEPT ![clientId] = out[clientId] \o ConnectionSends(ps, clientId)]
          /\ lastEvent' = [kind |-> "connection", id |-> clientId]
    /\ nEvents < MaxEvents
    /\ nEvents' = nEvents + 1
    /\ UNCHANGED <<closeFired, sendErrs, bcasts, sentName>>

-----------------------------------------------------------------------------
(* ws.on('message') *)

\* a first-update test that always succeeds
firstUpdate_Always(ps, clientId) == TRUE

\* line 54
firstUpdate(ps, clientId) == ~Truthy(StatesGetName(ps, clientId))

\* a name resolution without the synthesized default
incomingName_NoDefault(payload, cdName, clientId) ==
    IF Truthy(payload.name) THEN payload.name
    ELSE IF Truthy(cdName) THEN cdName
    ELSE Absent

\* line 55
incomingName(payload, cdName, clientId) ==
    IF Truthy(payload.name) THEN payload.name
    ELSE IF Truthy(cdName) THEN cdName
    ELSE DefaultName(clientId)

\* line 58
newState(payload, name) == [payload EXCEPT !.name = name]

\* lines 60-61
UpdateClientData(cd, state, name) ==
    [name |-> IF Truthy(cd.name) THEN cd.name ELSE name, state |-> state]

\* lines 53-77
PlayerStateUpdate(clientId, payload) ==
    LET first == firstUpdate(playerStates, clientId)
        name == incomingName(payload, clientData[clientId].name, clientId)
        state == newState(payload, name)
        cd == [clientData EXCEPT ![clientId] = UpdateClientData(@, state, name)]
        joined == PlayerJoinedMsg(clientId, name, state)
        update == PlayerUpdateMsg(clientId, state)
    IN /\ playerStates' = StatesSet(playerStates, clientId, state)
       /\ clientData' = cd
       /\ \E throws1 \in IF first THEN Throws(clients, readyState, St, joined, clientId)
                                  ELSE {{}} :
            LET st1 == IF first
                       THEN broadcast(clients, cd, readyState, St, joined, clientId, throws1)
                       ELSE St
            IN \E throws2 \in Throws(clients, readyState, st1, update, clientId) :
                 LET st2 == broadcast(clients, cd, readyState, st1, update, clientId, throws2)
                 IN /\ out' = st2.out
                    /\ sendErrs' = st2.sendErrs
                    /\ bcasts' = st2.bcasts

\* a chat handler that does not test the text for emptiness
ChatMessage_EmptyAllowed(clientId, input) ==
    IF input.hasPayload /\ input.hasText
    THEN LET text == Substring(input.text, 0, ChatMaxLen)
             chat == ChatMsg(clientId, text)
         IN /\ \E throws \in Throws(clients, readyState, St, chat, NoWs) :
                 LET st == broadcast(clients, clientData, readyState, St, chat, NoWs, throws)
                 IN /\ out' = st.out
                    /\ sendErrs' = st.sendErrs
                    /\ bcasts' = st.bcasts
            /\ UNCHANGED <<playerStates, clientData>>
    ELSE UNCHANGED <<playerStates, clientData, out, sendErrs, bcasts>>

\* lines 79-92
ChatMessage(clientId, input) ==
    IF input.hasPayload /\ input.hasText /\ Len(input.text) > 0
    THEN LET text == Substring(input.text, 0, ChatMaxLen)
             chat == ChatMsg(clientId, text)
         IN /\ \E throws \in Throws(clients, readyState, St, chat, NoWs) :
                 LET st == broadcast(clients, clientData, readyState, St, chat, NoWs, throws)
                 IN /\ out' = st.out
                    /\ sendErrs' = st.sendErrs
                    /\ bcasts' = st.bcasts
            /\ UNCHANGED <<playerStates, clientData>>
    ELSE UNCHANGED <<playerStates, clientData, out, sendErrs, bcasts>>

\* lines 48-100.  The handler stays attached until the handle's 'close' event: the
\* 'error' handler neither detaches it nor closes the handle, so a message may be
\* processed for a clientId that 'error' has already removed from the registry.
Message(clientId, input) ==
    /\ clientId \in Connected
    /\ clientId \notin closeFired
    /\ nEvents < MaxEvents
    /\ nEvents' = nEvents + 1
    /\ lastEvent' = [kind |-> "message", id |-> clientId, input |-> input]
    /\ sentName' = IF /\ input.type = "playerStateUpdate" /\ input.hasPayload
                      /\ Truthy(input.payload.name)
                   THEN sentName \cup {clientId} ELSE sentName
    /\ IF input.type = "playerStateUpdate" /\ input.hasPayload
       THEN PlayerStateUpdate(clientId, input.payload)
       ELSE IF input.type = "chatMessage"
       THEN ChatMessage(clientId, input)
       ELSE \* JSON.parse threw, message.payload.name threw (both caught at line 97),
            \* or the default branch of the switch
            UNCHANGED <<playerStates, clientData, out, sendErrs, bcasts>>
    /\ UNCHANGED <<nextId, clients, readyState, closeFired>>

-----------------------------------------------------------------------------
(* ws.on('close'), ws.on('error') *)

\* lines 103-110; the transport sets readyState to CLOSED before it emits 'close'
Close(clientId) ==
    /\ clientId \in Connected
    /\ clientId \notin closeFired
    /\ nEvents < MaxEvents
    /\ nEvents' = nEvents + 1
    /\ closeFired' = closeFired \cup {clientId}
    /\ readyState' = [readyState EXCEPT ![clientId] = "CLOSED"]
    /\ clients' = clients \ {clientId}
    /\ playerStates' = StatesDelete(playerStates, clientId)
    /\ \E throws \in Throws(clients', readyState', St, PlayerLeftMsg(clientId), NoWs) :
          LET st == broadcast(clients', clientData, readyState', St,
                              PlayerLeftMsg(clientId), NoWs, throws)
          IN /\ out' = st.out
             /\ sendErrs' = st.sendErrs
             /\ bcasts' = st.bcasts
    /\ lastEvent' = [kind |-> "close", id |-> clientId]
    /\ UNCHANGED <<nextId, clientData, sentName>>

\* lines 112-120; 'error' may be emitted before or after 'close'
Error(clientId) ==
    /\ clientId \in Connected
    /\ nEvents < MaxEvents
    /\ nEvents' = nEvents + 1
    /\ lastEvent' = [kind |-> "error", id |-> clientId]
    /\ IF clientId \in clients
       THEN /\ clients' = clients \ {clientId}
            /\ playerStates' = StatesDelete(playerStates, clientId)
            /\ \E throws \in Throws(clients', readyState, St, PlayerLeftMsg(clientId), NoWs) :
                  LET st == broadcast(clients', clientData, readyState, St,
                                      PlayerLeftMsg(clientId), NoWs, throws)
                  IN /\ out' = st.out
                     /\ sendErrs' = st.sendErrs
                     /\ bcasts' = st.bcasts
       ELSE UNCHANGED <<clients, playerStates, out, sendErrs, bcasts>>
    /\ UNCHANGED <<nextId, clientData, readyState, closeFired, sentName>>

\* the transport starts closing a handle (close frame received or sent): readyState
\* leaves OPEN some time before the 'close' event is emitted
Closing(clientId) ==
    /\ clientId \in Connected
    /\ readyState[clientId] = "OPEN"
    /\ nEvents < MaxEvents
    /\ nEvents' = nEvents + 1
    /\ readyState' = [readyState EXCEPT ![clientId] = "CLOSING"]
    /\ lastEvent' = [kind |-> "closing", id |-> clientId]
    /\ UNCHANGED <<nextId, clients, clientData, playerStates, closeFired,
                   out, sendErrs, bcasts, sentName>>

-----------------------------------------------------------------------------

Init ==
    /\ nextId = 1
    /\ clients = {}
    /\ clientData = [c \in Ids |-> [name |-> Null, state |-> EmptyState]]
    /\ playerStates = <<>>
    /\ readyState = [c \in Ids |-> "CONNECTING"]
    /\ closeFired = {}
    /\ out = [c \in Ids |-> <<>>]
    /\ sendErrs = <<>>
    /\ bcasts = <<>>
    /\ lastEvent = [kind |-> "init"]
    /\ sentName = {}
    /\ nEvents = 0

Next ==
    \/ Connection
    \/ \E clientId \in Ids, input \in Inputs : Message(clientId, input)
    \/ \E clientId \in Ids : Close(clientId)
    \/ \E clientId \in Ids : Error(clientId)
    \/ \E clientId \in Ids : Closing(clientId)

Spec == Init /\ [][Next]_vars

-----------------------------------------------------------------------------
(* Vocabulary of the properties *)

IsLeft(m, x) == m.type = "playerLeft" /\ m.id = x
IsJoined(m, x) == m.type = "playerJoined" /\ m.id = x
IsUpdate(m, x) == m.type = "playerUpdate" /\ m.id = x
IsChat(m, x) == m.type = "chatMessage" /\ m.senderId = x
AttributedTo(m, x) == IsJoined(m, x) \/ IsUpdate(m, x) \/ IsChat(m, x)

\* number of broadcast calls of playerLeft{id: x} / playerJoined{id: x} so far
LeftCount(x) == Cardinality({i \in 1..Len(bcasts) : IsLeft(bcasts[i], x)})
JoinCount(x) == Cardinality({i \in 1..Len(bcasts) : IsJoined(bcasts[i], x)})

\* what the step appended to a log
NewOut(d) == SubSeq(out'[d], Len(out[d]) + 1, Len(out'[d]))
NewErrs == SubSeq(sendErrs', Len(sendErrs) + 1, Len(sendErrs'))
NewBcasts == SubSeq(bcasts', Len(bcasts) + 1, Len(bcasts'))

Range(q) == {q[i] : i \in 1..Len(q)}

\* the step handed exactly the message m to d's ws.send (which accepted it or threw)
HandedTo(d, m) ==
    \/ NewOut(d) = <<m>>
    \/ NewOut(d) = <<>> /\ \E e \in Range(NewErrs) : e.to = d /\ e.m = m

\* the step processed an inbound playerStateUpdate with a payload from x
IsStateReport(ev, x) ==
    /\ ev.kind = "message" /\ ev.id = x
    /\ ev.input.type = "playerStateUpdate" /\ ev.input.hasPayload

\* the step processed an inbound chatMessage with non-empty text from x
IsChatInput(ev, x) ==
    /\ ev.kind = "message" /\ ev.id = x
    /\ ev.input.type = "chatMessage" /\ ev.input.hasPayload
    /\ ev.input.hasText /\ Len(ev.input.text) > 0

-----------------------------------------------------------------------------
\* C1: for every identity that was registered, playerLeft{id} is broadcast at most
\* once in every reachable state, and exactly once when its connection has ended
\* (its 'close' event was processed), whatever the order of 'close' and 'error'.
C1_PlayerLeftExactlyOnce ==
    \A x \in Connected :
        /\ LeftCount(x) <= 1
        /\ x \in closeFired => LeftCount(x) = 1

-----------------------------------------------------------------------------
\* C2: when 'close' or 'error' is processed for a registered identity x, x leaves
\* both the registry and the state store, playerLeft{id: x} is handed to the send of
\* every client that is still registered with an open handle, and nothing is sent
\* to x itself; this does not depend on x having been announced before.
C2_RemovalNotifiesPeers ==
    [][ \A x \in Ids :
          (lastEvent'.kind \in {"close", "error"} /\ lastEvent'.id = x /\ x \in clients)
          => /\ x \notin clients'
             /\ x \notin StateIds(playerStates')
             /\ out'[x] = out[x]
             /\ \A d \in clients' :
                  readyState'[d] = "OPEN" => HandedTo(d, [type |-> "playerLeft", id |-> x])
      ]_vars

\* a peer has received playerLeft for an identity that was never announced
C2_Witness ==
    /\ lastEvent.kind \in {"close", "error"}
    /\ LeftCount(lastEvent.id) = 1
    /\ JoinCount(lastEvent.id) = 0
    /\ clientData[lastEvent.id].name = Null
    /\ \E d \in clients :
          /\ readyState[d] = "OPEN"
          /\ Len(out[d]) > 2
          /\ IsLeft(out[d][Len(out[d])], lastEvent.id)

-----------------------------------------------------------------------------
\* C3 (as stated): no playerJoined or playerUpdate is broadcast for x before x has
\* sent a state report carrying a name, and a state report without a name from a
\* client whose name is still absent leaves the name absent and broadcasts no
\* playerJoined.
C3_NamelessReportKeepsAbsent ==
    [][ \A x \in Ids :
          /\ (\E m \in Range(NewBcasts) : IsJoined(m, x) \/ IsUpdate(m, x))
                => x \in sentName'
          /\ ( /\ IsStateReport(lastEvent', x)
               /\ ~Truthy(lastEvent'.input.payload.name)
               /\ ~Truthy(clientData[x].name) )
             => /\ ~Truthy(clientData'[x].name)
                /\ \A m \in Range(NewBcasts) : ~IsJoined(m, x)
      ]_vars

\* C3 (amended): playerJoined{id: x} and playerUpdate{id: x} are broadcast only
\* while a state report (with a payload) of x is processed, so never before x's
\* first one; a state report without a name from a client whose name is still
\* absent fixes the name to the default derived from the id and broadcasts
\* playerJoined carrying that default name.
C3_NamelessReportJoinsWithDefault ==
    [][ \A x \in Ids :
          /\ (\E m \in Range(NewBcasts) : IsJoined(m, x) \/ IsUpdate(m, x))
                => IsStateReport(lastEvent', x)
          /\ ( /\ IsStateReport(lastEvent', x)
               /\ ~Truthy(lastEvent'.input.payload.name)
               /\ ~Truthy(clientData[x].name) )
             => /\ clientData'[x].name = "Player_" \o ToString(x)
                /\ Len(NewBcasts) = 2
                /\ IsJoined(NewBcasts[1], x)
                /\ NewBcasts[1].name = "Player_" \o ToString(x)
                /\ NewBcasts[1].state.name = "Player_" \o ToString(x)
      ]_vars

\* a peer has received playerJoined with the default name, after a nameless report
C3_Witness ==
    /\ IsStateReport(lastEvent, lastEvent.id)
    /\ ~Truthy(lastEvent.input.payload.name)
    /\ clientData[lastEvent.id].name = "Player_" \o ToString(lastEvent.id)
    /\ \E d \in clients \ {lastEvent.id} :
          \E i \in 1..Len(out[d]) :
             IsJoined(out[d][i], lastEvent.id) /\ out[d][i].name = clientData[lastEvent.id].name

-----------------------------------------------------------------------------
\* C4: playerJoined{id: x} is broadcast at most once for every identity x, whatever
\* state reports, chat messages, 'error' and 'close' events its connection meets.
C4_JoinedAtMostOnce == \A x \in Connected : JoinCount(x) <= 1

-----------------------------------------------------------------------------
\* C5: processing a state report of x sends nothing to x itself (neither the
\* playerJoined nor the playerUpdate).
C5_ReportNeverEchoed ==
    [][ \A x \in Ids :
          IsStateReport(lastEvent', x)
            => /\ out'[x] = out[x]
               /\ \A e \in Range(NewErrs) : e.to # x
      ]_vars

-----------------------------------------------------------------------------
\* C6: once playerLeft{id: x} has been broadcast, no playerJoined{id: x},
\* playerUpdate{id: x} or chatMessage{senderId: x} is sent to any client.
C6_NothingAfterLeft ==
    [][ \A x \in Ids :
          LeftCount(x) > 0
            => \A d \in Ids :
                 /\ \A m \in Range(NewOut(d)) : ~AttributedTo(m, x)
                 /\ \A e \in Range(NewErrs) : ~AttributedTo(e.m, x)
      ]_vars

-----------------------------------------------------------------------------
\* C7: a worldState message never lists the identity of its receiver, never lists
\* a state that is empty or has no name, every listed name is the name inside the
\* listed state, and what the newly connected client is sent are entries of the
\* state store.
C7_WorldStateEntries ==
    /\ \A d \in Connected :
         \A i \in 1..Len(out[d]) :
            out[d][i].type = "worldState"
              => \A e \in Range(out[d][i].players) :
                    /\ e.id # d
                    /\ Keys(e.state) # {}
                    /\ e.state.name \notin {Absent, Null, ""}
                    /\ e.name = e.state.name
    /\ lastEvent.kind = "connection"
         => \A e \in Range(out[lastEvent.id][2].players) :
               [id |-> e.id, state |-> e.state] \in Range(playerStates)

\* a new client was sent a list with a named player, while the store also held the
\* empty state of another client and its own
C7_Witness ==
    /\ lastEvent.kind = "connection"
    /\ Len(out[lastEvent.id][2].players) = 1
    /\ Len(playerStates) = 3
    /\ \E i \in 1..Len(playerStates) :
          playerStates[i].id # lastEvent.id /\ playerStates[i].state = EmptyState

-----------------------------------------------------------------------------
\* C8: processing a connection sends the new client exactly assignId{id} and then
\* worldState (also with an empty list) as its first two messages, and sends
\* nothing to anybody else.
C8_ConnectSendsIdThenWorld ==
    [][ \A c \in Ids :
          (lastEvent'.kind = "connection" /\ lastEvent'.id = c)
            => /\ out[c] = <<>>
               /\ Len(out'[c]) = 2
               /\ out'[c][1] = [type |-> "assignId", id |-> c]
               /\ out'[c][2].type = "worldState"
               /\ \A d \in Ids \ {c} : out'[d] = out[d]
               /\ sendErrs' = sendErrs
               /\ bcasts' = bcasts
      ]_vars

\* a client connected next to an open registered peer and got an empty list
C8_Witness ==
    /\ lastEvent.kind = "connection"
    /\ out[lastEvent.id] = << [type |-> "assignId", id |-> lastEvent.id],
                              [type |-> "worldState", players |-> <<>>] >>
    /\ \E d \in clients \ {lastEvent.id} : readyState[d] = "OPEN"

-----------------------------------------------------------------------------
\* C9: the name reported for an identity in every playerUpdate state and every
\* worldState entry is the name fixed by its first identifying state report
\* (clientData.name, which is written once), whatever names later reports carry.
C9_NameStaysFirst ==
    /\ \A i \in 1..Len(bcasts) :
          bcasts[i].type = "playerUpdate"
            => bcasts[i].state.name = clientData[bcasts[i].id].name
    /\ \A d \in Connected :
         \A i \in 1..Len(out[d]) :
            out[d][i].type = "worldState"
              => \A e \in Range(out[d][i].players) :
                    e.name = clientData[e.id].name /\ e.state.name = clientData[e.id].name

-----------------------------------------------------------------------------
\* C10: a chatMessage with non-empty text from a registered client x is handed to
\* the send of every registered open client, x included, as chatMessage with
\* senderId x and the first 100 units of the text (the whole text when it has at
\* most 100 units), whether or not x has been identified.
C10_ChatToAllTruncated ==
    [][ \A x \in Ids :
          (IsChatInput(lastEvent', x) /\ x \in clients)
            => LET t == lastEvent'.input.text
                   n == IF Len(t) > 100 THEN 100 ELSE Len(t)
                   first == [i \in 1..n |-> t[i]]
               IN /\ Len(t) <= 100 => first = t
                  /\ \A d \in clients :
                       readyState[d] = "OPEN"
                         => HandedTo(d, [type |-> "chatMessage", senderId |-> x, text |-> first])
      ]_vars

\* an unidentified client sent more than 100 units; it and a peer got the first 100
C10_Witness ==
    /\ IsChatInput(lastEvent, lastEvent.id)
    /\ Len(lastEvent.input.text) > 100
    /\ clientData[lastEvent.id].name = Null
    /\ lastEvent.id \in clients
    /\ \E d \in clients \ {lastEvent.id} :
          /\ out[d][Len(out[d])].type = "chatMessage"
          /\ Len(out[d][Len(out[d])].text) = 100
          /\ out[lastEvent.id][Len(out[lastEvent.id])] = out[d][Len(out[d])]

-----------------------------------------------------------------------------
\* the state store entry of d (empty when there is none)
StoreOf(ps, d) == {e \in Range(ps) : e.id = d}

\* the step's send of m to d threw
ThrewAt(d, m) == \E e \in Range(NewErrs) : e.to = d /\ e.m = m

\* C11: when a send throws during a fan-out, every broadcast of the step still
\* reaches the other registered open recipients, the handler runs to its end (a
\* state report still broadcasts its playerUpdate), the failing recipient stays
\* registered, and the registry and the state store change only as the handler
\* changes them for the connection of the event.
C11_SendFailureIsolated ==
    [][ NewErrs # <<>>
          => /\ \A e \in Range(NewErrs) : e.to \in clients'
             /\ clients' = IF lastEvent'.kind \in {"close", "error"}
                           THEN clients \ {lastEvent'.id} ELSE clients
             /\ \A d \in Ids \ {lastEvent'.id} :
                   StoreOf(playerStates', d) = StoreOf(playerStates, d)
             /\ \A m \in Range(NewBcasts) :
                   \A d \in clients' :
                      ( /\ readyState'[d] = "OPEN"
                        /\ m.type = "playerUpdate" => d # lastEvent'.id )
                      => (m \in Range(NewOut(d)) \/ ThrewAt(d, m))
             /\ \A x \in Ids :
                   IsStateReport(lastEvent', x)
                     => NewBcasts[Len(NewBcasts)].type = "playerUpdate"
      ]_vars

\* a send threw for one client and a client visited after it got the same message
C11_Witness ==
    /\ Len(sendErrs) > 0
    /\ lastEvent.kind \in {"message", "close", "error"}
    /\ LET e == sendErrs[Len(sendErrs)]
       IN /\ e.to \in clients
          /\ bcasts[Len(bcasts)] = e.m
          /\ \E d \in clients :
                d > e.to /\ Len(out[d]) > 2 /\ out[d][Len(out[d])] = e.m

-----------------------------------------------------------------------------
\* C12: an inbound message that is malformed JSON, has an unknown type, is a
\* playerStateUpdate without payload, or is a chatMessage without text or with
\* empty text changes neither the registry nor the state store nor any client
\* record, sends nothing, and leaves its sender registered.
IsIgnoredInput(input) ==
    \/ input.type \in {"malformed", "other"}
    \/ input.type = "playerStateUpdate" /\ ~input.hasPayload
    \/ /\ input.type = "chatMessage"
       /\ (~input.hasPayload \/ ~input.hasText \/ Len(input.text) = 0)

C12_IgnoredInputChangesNothing ==
    [][ (lastEvent'.kind = "message" /\ IsIgnoredInput(lastEvent'.input))
          => /\ clients' = clients
             /\ playerStates' = playerStates
             /\ clientData' = clientData
             /\ out' = out
             /\ sendErrs' = sendErrs
             /\ bcasts' = bcasts
             /\ readyState' = readyState
      ]_vars

\* a registered client with an open peer sent a chatMessage with empty text
C12_Witness ==
    /\ lastEvent.kind = "message"
    /\ lastEvent.input.type = "chatMessage"
    /\ lastEvent.input.hasPayload /\ lastEvent.input.hasText
    /\ Len(lastEvent.input.text) = 0
    /\ lastEvent.id \in clients
    /\ \E d \in clients \ {lastEvent.id} : readyState[d] = "OPEN"

-----------------------------------------------------------------------------
\* C13: after a state report of x with payload P, the store holds for x exactly
\* the fields of P plus name (every non-name field has P's value, also when P
\* lacks a field an earlier report had; a name carried by P is the stored name),
\* and the stored state and the client record of every other client are unchanged.
C13_ReportReplacesState ==
    [][ \A x \in Ids :
          IsStateReport(lastEvent', x)
            => LET P == lastEvent'.input.payload
               IN /\ Cardinality(StoreOf(playerStates', x)) = 1
                  /\ \A e \in StoreOf(playerStates', x) :
                        /\ \A f \in DOMAIN P \ {"name"} : e.state[f] = P[f]
                        /\ Keys(e.state) = Keys(P) \cup {"name"}
                        /\ P.name \notin {Absent, ""} => e.state.name = P.name
                        /\ clientData'[x].state = e.state
                  /\ \A d \in Ids \ {x} :
                        /\ StoreOf(playerStates', d) = StoreOf(playerStates, d)
                        /\ clientData'[d] = clientData[d]
      ]_vars

\* a report without the field x followed one that had it: the field is gone
C13_Witness ==
    /\ IsStateReport(lastEvent, lastEvent.id)
    /\ lastEvent.input.payload.x = Absent
    /\ \E i \in 1..Len(bcasts) :
          IsUpdate(bcasts[i], lastEvent.id) /\ bcasts[i].state.x = "1"
    /\ \E e \in StoreOf(playerStates, lastEvent.id) : e.state.x = Absent
    /\ \E d \in clients \ {lastEvent.id} : StoreOf(playerStates, d) # {}

-----------------------------------------------------------------------------
\* C14: outside the two sends of a connection to its own new handle, a step sends
\* (or tries to send) only to handles whose identity is in the registry when the
\* broadcast runs; a removed identity is never reached by a later broadcast.
C14_OnlyRegisteredReceive ==
    [][ lastEvent'.kind # "connection"
          => \A d \in Ids :
                (NewOut(d) # <<>> \/ \E e \in Range(NewErrs) : e.to = d)
                  => d \in clients /\ d \in clients'
      ]_vars

\* a removed client whose handle is still open was skipped by a broadcast that
\* reached a registered client
C14_Witness ==
    /\ lastEvent.kind = "message"
    /\ Len(bcasts) > 0
    /\ \E x \in Connected \ clients :
          /\ readyState[x] = "OPEN"
          /\ LeftCount(x) = 1
          /\ bcasts[Len(bcasts)] \notin Range(out[x])
          /\ \E d \in clients : out[d][Len(out[d])] = bcasts[Len(bcasts)]

-----------------------------------------------------------------------------
\* C15: every playerJoined and playerUpdate that is broadcast, delivered or tried
\* carries a non-empty state holding a non-empty name, and the name field of a
\* playerJoined is the name inside its state.
WellNamed(m) ==
    m.type \in {"playerJoined", "playerUpdate"}
      => /\ Keys(m.state) # {}
         /\ m.state.name \notin {Absent, Null, ""}
         /\ m.type = "playerJoined" => m.name = m.state.name

C15_AnnouncedStatesNamed ==
    /\ \A i \in 1..Len(bcasts) : WellNamed(bcasts[i])
    /\ \A d \in Ids : \A i \in 1..Len(out[d]) : WellNamed(out[d][i])
    /\ \A i \in 1..Len(sendErrs) : WellNamed(sendErrs[i].m)

\* a peer was sent the playerUpdate of a report whose payload was empty
C15_Witness ==
    /\ IsStateReport(lastEvent, lastEvent.id)
    /\ lastEvent.input.payload = EmptyState
    /\ \E d \in clients \ {lastEvent.id} :
          /\ IsUpdate(out[d][Len(out[d])], lastEvent.id)
          /\ Keys(out[d][Len(out[d])].state) = {"name"}

-----------------------------------------------------------------------------
\* C16: a state report (with payload) of a registered client x makes the server
\* broadcast playerUpdate{id: x} with the full new state exactly once, preceded by
\* playerJoined{id: x} with the same state exactly when x was not yet identified;
\* every other registered open client is handed these messages, in this order
\* (a message whose send threw is missing from what it receives).
C16_ReportFanOut ==
    [][ \A x \in Ids :
          (IsStateReport(lastEvent', x) /\ x \in clients)
            => LET P == lastEvent'.input.payload
                   first == clientData[x].name = Null
                   s == clientData'[x].state
                   J == [type |-> "playerJoined", id |-> x, name |-> s.name, state |-> s]
                   U == [type |-> "playerUpdate", id |-> x, state |-> s]
                   expected == IF first THEN <<J, U>> ELSE <<U>>
               IN /\ \A f \in DOMAIN P \ {"name"} : s[f] = P[f]
                  /\ StoreOf(playerStates', x) = {[id |-> x, state |-> s]}
                  /\ NewBcasts = expected
                  /\ \A d \in clients \ {x} :
                        readyState[d] = "OPEN"
                          => /\ NewOut(d) = SelectSeq(expected, LAMBDA m : ~ThrewAt(d, m))
                             /\ \A e \in Range(NewErrs) : e.to = d => e.m \in Range(expected)
      ]_vars

\* a peer got playerJoined, playerUpdate for the first report and only a
\* playerUpdate for the second
C16_Witness ==
    /\ IsStateReport(lastEvent, lastEvent.id)
    /\ lastEvent.id \in clients
    /\ \E d \in clients \ {lastEvent.id} :
          LET n == Len(out[d])
          IN /\ n = 5
             /\ IsJoined(out[d][3], lastEvent.id)
             /\ IsUpdate(out[d][4], lastEvent.id)
             /\ IsUpdate(out[d][5], lastEvent.id)
             /\ out[d][5].state = clientData[lastEvent.id].state
             /\ out[d][5].state # out[d][4].state

-----------------------------------------------------------------------------
\* C17: between events the state store holds an entry for exactly the identities
\* of the registry.
C17_StoreMatchesRegistry == StateIds(playerStates) = clients

-----------------------------------------------------------------------------
\* the message tells its receiver about player x
Tells(m, x) ==
    \/ IsJoined(m, x)
    \/ m.type = "worldState" /\ \E e \in Range(m.players) : e.id = x

\* before its i-th accepted message, d was handed playerJoined{id: x} (accepted, or
\* thrown by its send) or accepted a worldState listing x, and has accepted no
\* playerLeft{id: x} since
ToldBefore(d, x, i) ==
    \/ \E j \in 1..(i - 1) :
          /\ Tells(out[d][j], x)
          /\ \A k \in (j + 1)..(i - 1) : ~IsLeft(out[d][k], x)
    \/ \E e \in Range(sendErrs) :
          /\ e.to = d /\ IsJoined(e.m, x) /\ e.at < i
          /\ \A k \in (e.at + 1)..(i - 1) : ~IsLeft(out[d][k], x)

====
